---- MODULE Spec2Model ----
(***************************************************************************)
(* A model of pysradb's command line interface (pysradb/cli.py): one CLI   *)
(* invocation is parsed by parse_args, dispatched to its handler, and the  *)
(* handler talks to a metadata source object (SRAdb / SRAweb), a search    *)
(* backend (SraSearch / EnaSearch / GeoSearch), standard output and the    *)
(* save-to file.                                                           *)
(*                                                                         *)
(* Text is modelled as a sequence of one-character strings, so that        *)
(* lower(), endswith(), lstrip(), split() and join() are computed and not  *)
(* assumed.  An optional Python value is <<>> for None and <<v>> for v.    *)
(***************************************************************************)
EXTENDS Naturals, Sequences, FiniteSets, TLC

VARIABLES
    command,    \* args.command: the subcommand parse_args dispatches on
    args,       \* the argparse namespace, attribute name -> value
    fs,         \* the files that exist (os.path.isfile)
    stdin,      \* the lines the process reads from sys.stdin
    pc,         \* position of the invocation inside parse_args / its handler
    bound,      \* the handler's parameters after the call binds them
    err,        \* the exception that left the handler, <<>> when none
    sradb,      \* the metadata source object the handler constructed
    trace,      \* the handler's calls and outputs so far, in order
    df,         \* the table the handler holds
    stdout,     \* what was print()ed, one text per print call
    saved,      \* the files written with DataFrame.to_csv, in order
    todo,       \* download: the study ids still to process
    instance,   \* search: the backend object constructed
    prev,       \* the finished run a rerun is compared with
    argv        \* what was typed, where the command line itself is modelled, else <<>>

vars == <<command, args, fs, stdin, pc, bound, err, sradb, trace, df, stdout, saved,
          todo, instance, prev, argv>>

(***************************************************************************)
(* Bounds of the model.                                                    *)
(***************************************************************************)
MaxIds == 2
MaxRows == 2
MaxCols == 2
MaxFilters == 1

(***************************************************************************)
(* Python values.                                                          *)
(***************************************************************************)
NoneVal == <<>>

Some(v) == <<v>>

IsNone(o) == o = <<>>

Val(o) == o[1]

Range(s) == {s[i] : i \in DOMAIN s}

SeqsUpTo(S, n) == UNION {[1..k -> S] : k \in 0..n}

NonEmptySeqsUpTo(S, n) == UNION {[1..k -> S] : k \in 1..n}

Max(S) == CHOOSE x \in S : \A y \in S : y <= x

\* bool(s) of an optional string: None and "" are falsy
Truthy(o) == ~IsNone(o) /\ Val(o) # <<>>

(***************************************************************************)
(* str methods, on sequences of characters.                                *)
(***************************************************************************)
Whitespace == {" ", "\t", "\n"}

LowerChar(c) ==
    CASE c = "C" -> "c"
      [] c = "S" -> "s"
      [] c = "V" -> "v"
      [] c = "O" -> "o"
      [] OTHER -> c

Lower(s) == [i \in DOMAIN s |-> LowerChar(s[i])]

EndsWith(s, suffix) ==
    /\ Len(s) >= Len(suffix)
    /\ SubSeq(s, Len(s) - Len(suffix) + 1, Len(s)) = suffix

RECURSIVE LStrip(_)
LStrip(s) ==
    IF s # <<>> /\ Head(s) \in Whitespace THEN LStrip(Tail(s)) ELSE s

\* sep.join(parts), sep and the parts being texts
RECURSIVE Join(_, _)
Join(parts, sep) ==
    IF parts = <<>> THEN <<>>
    ELSE IF Len(parts) = 1 THEN parts[1]
    ELSE parts[1] \o sep \o Join(Tail(parts), sep)

\* s.split(c) for a one-character separator c: always at least one part
RECURSIVE Split(_, _)
Split(s, c) ==
    IF \A i \in DOMAIN s : s[i] # c THEN <<s>>
    ELSE LET k == CHOOSE i \in DOMAIN s :
                     s[i] = c /\ \A j \in 1..(i - 1) : s[j] # c
         IN  <<SubSeq(s, 1, k - 1)>> \o Split(SubSeq(s, k + 1, Len(s)), c)

RECURSIVE RStrip(_)
RStrip(s) ==
    IF s # <<>> /\ s[Len(s)] \in Whitespace
    THEN RStrip(SubSeq(s, 1, Len(s) - 1)) ELSE s

Strip(s) == RStrip(LStrip(s))

RECURSIVE LStripChar(_, _)
LStripChar(s, c) ==
    IF s # <<>> /\ Head(s) = c THEN LStripChar(Tail(s), c) ELSE s

\* re.sub of n whitespace characters in a row by one tab, leftmost first
RECURSIVE SubWhitespaceN(_, _)
SubWhitespaceN(s, n) ==
    IF Len(s) < n THEN s
    ELSE IF \A i \in 1..n : s[i] \in Whitespace
         THEN <<"\t">> \o SubWhitespaceN(SubSeq(s, n + 1, Len(s)), n)
         ELSE <<Head(s)>> \o SubWhitespaceN(Tail(s), n)

\* re.sub("\t+", "\t", s)
RECURSIVE SubTabs(_)
SubTabs(s) ==
    IF s = <<>> THEN s
    ELSE IF Head(s) = "\t" THEN <<"\t">> \o SubTabs(LStripChar(s, "\t"))
    ELSE <<Head(s)>> \o SubTabs(Tail(s))

\* re.sub("\s\t", "\t", s)
RECURSIVE SubWhitespaceTab(_)
SubWhitespaceTab(s) ==
    IF Len(s) < 2 THEN s
    ELSE IF s[1] \in Whitespace /\ s[2] = "\t"
         THEN <<"\t">> \o SubWhitespaceTab(SubSeq(s, 3, Len(s)))
         ELSE <<Head(s)>> \o SubWhitespaceTab(Tail(s))

\* re.sub("\t\s", "\t", s)
RECURSIVE SubTabWhitespace(_)
SubTabWhitespace(s) ==
    IF Len(s) < 2 THEN s
    ELSE IF s[1] = "\t" /\ s[2] \in Whitespace
         THEN <<"\t">> \o SubTabWhitespace(SubSeq(s, 3, Len(s)))
         ELSE <<Head(s)>> \o SubTabWhitespace(Tail(s))

\* re.sub("\s+", "\t", s)
RECURSIVE SubWhitespaceRun(_)
SubWhitespaceRun(s) ==
    IF s = <<>> THEN s
    ELSE IF Head(s) \in Whitespace THEN <<"\t">> \o SubWhitespaceRun(LStrip(s))
    ELSE <<Head(s)>> \o SubWhitespaceRun(Tail(s))

linesep == <<"\n">>

(***************************************************************************)
(* Tables (pandas.DataFrame): column names and rows of cells, all texts.   *)
(***************************************************************************)
AllColumns == << <<"r", "u", "n">>, <<"s", "r", "x">>, <<"s", "r", "p">> >>

CellVals == { <<>>, <<"a">> }

TablesOf(ncols, maxRows) ==
    {[columns |-> SubSeq(AllColumns, 1, ncols), rows |-> r] :
        r \in SeqsUpTo([1..ncols -> CellVals], maxRows)}

Tables == UNION {TablesOf(n, MaxRows) : n \in 1..MaxCols}

NoTable == [columns |-> <<>>, rows |-> <<>>]

Spaces(n) == [i \in 1..n |-> " "]

ColWidth(rows, j) == Max({Len(rows[i][j]) : i \in DOMAIN rows})

\* DataFrame.to_string(index=False, justify="left", header=False, col_space=0):
\* one line per row, each cell padded on the left to its column's width, the
\* columns one space apart, the lines joined by "\n"
to_string(t) ==
    LET line(i) == Join([j \in DOMAIN t.columns |->
                            Spaces(ColWidth(t.rows, j) - Len(t.rows[i][j]))
                                \o t.rows[i][j]],
                        <<" ">>)
    IN  Join([i \in DOMAIN t.rows |-> line(i)], <<"\n">>)

\* DataFrame.to_csv(path, index=False, header=True, sep=sep): the text written
to_csv(t, sep) ==
    <<Join(t.columns, sep)>> \o [i \in DOMAIN t.rows |-> Join(t.rows[i], sep)]

(***************************************************************************)
(* The file system and the snapshot check.                                 *)
(***************************************************************************)
\* os.path.join(os.getcwd(), "SRAmetadb.sqlite")
CwdDb == "./SRAmetadb.sqlite"

SnapPath == "snap.sqlite"

DbFiles == {CwdDb, SnapPath}

\* the values of --db: absent, a path, the literal "web"
DbArgs == {NoneVal, Some(SnapPath), Some("web")}

isfile(path, files) == path \in files

Raise(type, msg) == [raised |-> TRUE, value |-> [type |-> type, msg |-> msg]]

Return(v) == [raised |-> FALSE, value |-> v]

\* the snapshot looked for only when no --db is given
_check_sradb_file_unchecked(db, files) ==
    IF IsNone(db)
    THEN IF isfile(CwdDb, files) THEN Return(CwdDb) ELSE Return("web")
    ELSE Return(Val(db))

\* the current directory's path returned without the isfile test
_check_sradb_file_cwd_untested(db, files) ==
    IF IsNone(db)
    THEN Return(CwdDb)
    ELSE IF ~isfile(Val(db), files)
         THEN Raise("RuntimeError", <<Val(db), " does not exist">>)
         ELSE Return(Val(db))

_check_sradb_file(db, files) ==
    IF IsNone(db)
    THEN IF isfile(CwdDb, files) THEN Return(CwdDb) ELSE Return("web")
    ELSE IF ~isfile(Val(db), files)
         THEN Raise("RuntimeError", <<Val(db), " does not exist">>)
         ELSE Return(Val(db))

get_sra_object(db) ==
    IF db = "web"
    THEN [cls |-> "SRAweb", path |-> NoneVal, closed |-> FALSE]
    ELSE [cls |-> "SRAdb", path |-> Some(db), closed |-> FALSE]

(***************************************************************************)
(* _print_save_df: the table goes to the file saveto, or to standard       *)
(* output when there is no saveto and the table has rows.                  *)
(***************************************************************************)
\* the extension compared without lower()
IsCsvCaseSensitive(path) == EndsWith(path, <<".", "c", "s", "v">>)

\* saveto.lower().endswith(".csv")
IsCsv(path) == EndsWith(Lower(path), <<".", "c", "s", "v">>)

\* the column names joined by spaces, as to_string() would
HeaderSpaces(t) == Join(t.columns, <<" ">>)

\* "\t".join(df.columns)
Header(t) == Join(t.columns, <<"\t">>)

\* the table also kept in a file of the working directory
_print_save_df_keeping(t, saveto, out, files) ==
    [stdout |-> out,
     saved |-> Append(files, [path |-> <<"o", "u", "t", ".", "t", "s", "v">>,
                              lines |-> to_csv(t, <<"\t">>)])]

_print_save_df(t, saveto, out, files) ==
    IF Truthy(saveto)
    THEN IF IsCsv(Val(saveto))
         THEN [stdout |-> out,
               saved |-> Append(files, [path |-> Val(saveto),
                                        lines |-> to_csv(t, <<",">>)])]
         ELSE [stdout |-> out,
               saved |-> Append(files, [path |-> Val(saveto),
                                        lines |-> to_csv(t, <<"\t">>)])]
    ELSE IF Len(t.rows) # 0
         THEN LET to_print == LStrip(to_string(t))
                  to_print_split == Split(to_print, "\n")
                  lines == <<Header(t)>>
                           \o [i \in DOMAIN to_print_split |->
                                  LStrip(to_print_split[i])]
              IN  [stdout |-> Append(out, Join(lines, linesep)),
                   saved |-> files]
         ELSE [stdout |-> out, saved |-> files]

(***************************************************************************)
(* parse_args: the subparsers of the metadata and identifier-conversion    *)
(* commands (positional attribute, nargs, set_defaults func), the dispatch *)
(* chain (handler called, namespace attributes passed in order), and the   *)
(* handlers (parameters in order, the source method called, the parameter  *)
(* passed as identifiers, the keyword arguments and the parameter each     *)
(* takes its value from).                                                  *)
(***************************************************************************)
Subparsers == <<
    [cmd |-> "metadata", attr |-> "srp_id", nargs |-> "+", func |-> "metadata"],
    [cmd |-> "gse-to-gsm", attr |-> "gse_ids", nargs |-> "+", func |-> "gse_to_gsm"],
    [cmd |-> "gse-to-srp", attr |-> "gse_ids", nargs |-> "+", func |-> "gse_to_gsm"],
    [cmd |-> "gsm-to-gse", attr |-> "gsm_ids", nargs |-> "+", func |-> "gsm_to_gse"],
    [cmd |-> "gsm-to-srp", attr |-> "gsm_ids", nargs |-> "+", func |-> "gsm_to_srp"],
    [cmd |-> "gsm-to-srr", attr |-> "gsm_ids", nargs |-> "+", func |-> "gsm_to_srr"],
    [cmd |-> "gsm-to-srs", attr |-> "gsm_ids", nargs |-> "+", func |-> "gsm_to_srs"],
    [cmd |-> "gsm-to-srx", attr |-> "gsm_ids", nargs |-> "+", func |-> "gsm_to_srx"],
    [cmd |-> "srp-to-gse", attr |-> "srp_id", nargs |-> "1", func |-> "srp_to_gse"],
    [cmd |-> "srp-to-srr", attr |-> "srp_id", nargs |-> "1", func |-> "srp_to_srr"],
    [cmd |-> "srp-to-srs", attr |-> "srp_id", nargs |-> "1", func |-> "srp_to_srs"],
    [cmd |-> "srp-to-srx", attr |-> "srp_id", nargs |-> "1", func |-> "srp_to_srx"],
    [cmd |-> "srr-to-gsm", attr |-> "srr_ids", nargs |-> "+", func |-> "srr_to_gsm"],
    [cmd |-> "srr-to-srp", attr |-> "srr_ids", nargs |-> "+", func |-> "srr_to_srp"],
    [cmd |-> "srr-to-srs", attr |-> "srr_ids", nargs |-> "+", func |-> "srr_to_srs"],
    [cmd |-> "srr-to-srx", attr |-> "srr_ids", nargs |-> "+", func |-> "srr_to_srx"],
    [cmd |-> "srs-to-gsm", attr |-> "srs_ids", nargs |-> "+", func |-> "srs_to_gsm"],
    [cmd |-> "srs-to-srx", attr |-> "srs_ids", nargs |-> "+", func |-> "srs_to_srx"],
    [cmd |-> "srx-to-srp", attr |-> "srx_ids", nargs |-> "+", func |-> "srx_to_srp"],
    [cmd |-> "srx-to-srr", attr |-> "srx_ids", nargs |-> "+", func |-> "srx_to_srr"],
    [cmd |-> "srx-to-srs", attr |-> "srx_ids", nargs |-> "+", func |-> "srx_to_srs"]
    >>

DispatchTable == <<
    [cmd |-> "metadata", handler |-> "metadata",
     actuals |-> <<"srp_id", "db", "assay", "desc", "detailed", "expand", "saveto">>],
    [cmd |-> "gse-to-gsm", handler |-> "gse_to_gsm",
     actuals |-> <<"gse_ids", "db", "saveto", "detailed", "desc", "expand">>],
    [cmd |-> "gse-to-srp", handler |-> "gse_to_srp",
     actuals |-> <<"gse_ids", "db", "saveto", "detailed", "desc", "expand">>],
    [cmd |-> "gsm-to-gse", handler |-> "gsm_to_gse",
     actuals |-> <<"gsm_ids", "db", "saveto", "detailed", "desc", "expand">>],
    [cmd |-> "gsm-to-srp", handler |-> "gsm_to_srp",
     actuals |-> <<"gsm_ids", "db", "saveto", "detailed", "desc", "expand">>],
    [cmd |-> "gsm-to-srr", handler |-> "gsm_to_srr",
     actuals |-> <<"gsm_ids", "db", "saveto", "detailed", "desc", "expand">>],
    [cmd |-> "gsm-to-srs", handler |-> "gsm_to_srs",
     actuals |-> <<"gsm_ids", "db", "saveto", "detailed", "desc", "expand">>],
    [cmd |-> "gsm-to-srx", handler |-> "gsm_to_srx",
     actuals |-> <<"gsm_ids", "db", "saveto", "detailed", "desc", "expand">>],
    [cmd |-> "srp-to-gse", handler |-> "srp_to_gse",
     actuals |-> <<"srp_id", "db", "saveto", "detailed", "desc", "expand">>],
    [cmd |-> "srp-to-srr", handler |-> "srp_to_srr",
     actuals |-> <<"srp_id", "db", "saveto", "detailed", "desc", "expand">>],
    [cmd |-> "srp-to-srs", handler |-> "srp_to_srs",
     actuals |-> <<"srp_id", "db", "saveto", "detailed", "desc", "expand">>],
    [cmd |-> "srp-to-srx", handler |-> "srp_to_srx",
     actuals |-> <<"srp_id", "db", "saveto", "detailed", "desc", "expand">>],
    [cmd |-> "srr-to-gsm", handler |-> "srr_to_gsm",
     actuals |-> <<"srr_ids", "db", "saveto", "detailed", "desc", "expand">>],
    [cmd |-> "srr-to-srp", handler |-> "srr_to_srp",
     actuals |-> <<"srr_ids", "db", "saveto", "detailed", "desc", "expand">>],
    [cmd |-> "srr-to-srs", handler |-> "srr_to_srs",
     actuals |-> <<"srr_ids", "db", "saveto", "detailed", "desc", "expand">>],
    [cmd |-> "srr-to-srx", handler |-> "srr_to_srx",
     actuals |-> <<"srr_ids", "db", "saveto", "detailed", "desc", "expand">>],
    [cmd |-> "srs-to-gsm", handler |-> "srs_to_gsm",
     actuals |-> <<"srs_ids", "db", "saveto", "detailed", "desc", "expand">>],
    [cmd |-> "srs-to-srx", handler |-> "srs_to_srx",
     actuals |-> <<"srs_ids", "db", "saveto", "detailed", "desc", "expand">>],
    [cmd |-> "srx-to-srp", handler |-> "srx_to_srp",
     actuals |-> <<"srx_ids", "db", "saveto", "detailed", "desc", "expand">>],
    [cmd |-> "srx-to-srr", handler |-> "srx_to_srr",
     actuals |-> <<"srx_ids", "db", "saveto", "detailed", "desc", "expand">>],
    [cmd |-> "srx-to-srs", handler |-> "srx_to_srs",
     actuals |-> <<"srx_ids", "db", "saveto", "detailed", "desc", "expand">>]
    >>

Handlers == <<
    [name |-> "metadata",
     params |-> <<"srp_id", "db", "assay", "desc", "detailed", "expand", "saveto">>,
     method |-> "sra_metadata", ids |-> "srp_id",
     kw |-> [assay |-> "assay", detailed |-> "detailed", sample_attribute |-> "desc",
             expand_sample_attributes |-> "expand"]],
    [name |-> "gse_to_gsm",
     params |-> <<"gse_ids", "db", "saveto", "detailed", "desc", "expand">>,
     method |-> "gse_to_gsm", ids |-> "gse_ids",
     kw |-> [detailed |-> "detailed", sample_attribute |-> "desc",
             expand_sample_attributes |-> "expand"]],
    [name |-> "gse_to_srp",
     params |-> <<"gse_ids", "db", "saveto", "detailed", "desc", "expand">>,
     method |-> "gse_to_srp", ids |-> "gse_ids",
     kw |-> [detailed |-> "detailed", sample_attribute |-> "desc",
             expand_sample_attributes |-> "expand"]],
    [name |-> "gsm_to_gse",
     params |-> <<"gsm_ids", "db", "saveto", "detailed", "desc", "expand">>,
     method |-> "gsm_to_gse", ids |-> "gsm_ids",
     kw |-> [detailed |-> "detailed", sample_attribute |-> "desc",
             expand_sample_attributes |-> "expand"]],
    [name |-> "gsm_to_srp",
     params |-> <<"gsm_ids", "db", "saveto", "detailed", "desc", "expand">>,
     method |-> "gsm_to_srp", ids |-> "gsm_ids",
     kw |-> [detailed |-> "detailed", sample_attribute |-> "desc",
             expand_sample_attributes |-> "expand"]],
    [name |-> "gsm_to_srr",
     params |-> <<"gsm_ids", "db", "saveto", "detailed", "desc", "expand">>,
     method |-> "gsm_to_srr", ids |-> "gsm_ids",
     kw |-> [detailed |-> "detailed", sample_attribute |-> "desc",
             expand_sample_attributes |-> "expand"]],
    [name |-> "gsm_to_srs",
     params |-> <<"gsm_ids", "db", "saveto", "detailed", "desc", "expand">>,
     method |-> "gsm_to_srs", ids |-> "gsm_ids",
     kw |-> [detailed |-> "detailed", sample_attribute |-> "desc",
             expand_sample_attributes |-> "expand"]],
    [name |-> "gsm_to_srx",
     params |-> <<"gsm_ids", "db", "saveto", "detailed", "desc", "expand">>,
     method |-> "gsm_to_srx", ids |-> "gsm_ids",
     kw |-> [detailed |-> "detailed", sample_attribute |-> "desc",
             expand_sample_attributes |-> "expand"]],
    [name |-> "srp_to_gse",
     params |-> <<"srp_id", "db", "saveto", "detailed", "desc", "expand">>,
     method |-> "srp_to_gse", ids |-> "srp_id",
     kw |-> [detailed |-> "detailed", sample_attribute |-> "desc",
             expand_sample_attributes |-> "expand"]],
    [name |-> "srp_to_srr",
     params |-> <<"srp_id", "db", "saveto", "detailed", "desc", "expand">>,
     method |-> "srp_to_srr", ids |-> "srp_id",
     kw |-> [detailed |-> "detailed", sample_attribute |-> "desc",
             expand_sample_attributes |-> "expand"]],
    [name |-> "srp_to_srs",
     params |-> <<"srp_id", "db", "saveto", "detailed", "desc", "expand">>,
     method |-> "srp_to_srs", ids |-> "srp_id",
     kw |-> [detailed |-> "detailed", sample_attribute |-> "desc",
             expand_sample_attributes |-> "expand"]],
    [name |-> "srp_to_srx",
     params |-> <<"srp_id", "db", "saveto", "detailed", "desc", "expand">>,
     method |-> "srp_to_srx", ids |-> "srp_id",
     kw |-> [detailed |-> "detailed", sample_attribute |-> "desc",
             expand_sample_attributes |-> "expand"]],
    [name |-> "srr_to_gsm",
     params |-> <<"srr_ids", "db", "saveto", "detailed", "desc", "expand">>,
     method |-> "srr_to_gsm", ids |-> "srr_ids",
     kw |-> [detailed |-> "detailed", sample_attribute |-> "desc",
             expand_sample_attributes |-> "expand"]],
    [name |-> "srr_to_srp",
     params |-> <<"srr_ids", "db", "saveto", "detailed", "desc", "expand">>,
     method |-> "srr_to_srp", ids |-> "srr_ids",
     kw |-> [detailed |-> "detailed", sample_attribute |-> "desc",
             expand_sample_attributes |-> "expand"]],
    [name |-> "srr_to_srs",
     params |-> <<"srr_ids", "db", "saveto", "detailed", "desc", "expand">>,
     method |-> "srr_to_srs", ids |-> "srr_ids",
     kw |-> [detailed |-> "detailed", sample_attribute |-> "desc",
             expand_sample_attributes |-> "expand"]],
    [name |-> "srr_to_srx",
     params |-> <<"srr_ids", "db", "saveto", "detailed", "desc", "expand">>,
     method |-> "srr_to_srx", ids |-> "srr_ids",
     kw |-> [detailed |-> "detailed", sample_attribute |-> "desc",
             expand_sample_attributes |-> "expand"]],
    [name |-> "srs_to_gsm",
     params |-> <<"srs_ids", "db", "saveto", "detailed", "desc", "expand">>,
     method |-> "srs_to_gsm", ids |-> "srs_ids",
     kw |-> [detailed |-> "detailed", sample_attribute |-> "desc",
             expand_sample_attributes |-> "expand"]],
    [name |-> "srs_to_srx",
     params |-> <<"srs_ids", "db", "saveto", "detailed", "desc", "expand">>,
     method |-> "srs_to_srx", ids |-> "srs_ids",
     kw |-> [detailed |-> "detailed", sample_attribute |-> "desc",
             expand_sample_attributes |-> "expand"]],
    [name |-> "srx_to_srp",
     params |-> <<"srx_ids", "db", "saveto", "detailed", "desc", "expand">>,
     method |-> "srx_to_srp", ids |-> "srx_ids",
     kw |-> [detailed |-> "detailed", sample_attribute |-> "desc",
             expand_sample_attributes |-> "expand"]],
    [name |-> "srx_to_srr",
     params |-> <<"srx_ids", "db", "saveto", "detailed", "desc", "expand">>,
     method |-> "srx_to_srr", ids |-> "srx_ids",
     kw |-> [detailed |-> "detailed", sample_attribute |-> "desc",
             expand_sample_attributes |-> "expand"]],
    [name |-> "srx_to_srs",
     params |-> <<"srx_ids", "db", "saveto", "detailed", "desc", "expand">>,
     method |-> "srx_to_srs", ids |-> "srx_ids",
     kw |-> [detailed |-> "detailed", sample_attribute |-> "desc",
             expand_sample_attributes |-> "expand"]]
    >>

Subparser(cmd) == CHOOSE s \in Range(Subparsers) : s.cmd = cmd

\* the dispatch made on args.func, the subparser's set_defaults value
DispatchByFunc(cmd) ==
    CHOOSE d \in Range(DispatchTable) : d.handler = Subparser(cmd).func

\* the dispatch on args.command
Dispatch(cmd) == CHOOSE d \in Range(DispatchTable) : d.cmd = cmd

Handler(name) == CHOOSE h \in Range(Handlers) : h.name = name

SourceCommands == {s.cmd : s \in Range(Subparsers)}

Index(seq, x) == CHOOSE i \in DOMAIN seq : seq[i] = x

\* a Python call f(a1, ..., an) with positional arguments only: the i-th
\* parameter is bound to the i-th actual
Bind(params, actuals, ns) ==
    [p \in Range(params) |-> ns[actuals[Index(params, p)]]]

\* the accessions the model supplies for a positional attribute
Accessions(attr) ==
    CASE attr = "gse_ids" -> {"GSE1", "GSE2"}
      [] attr = "gsm_ids" -> {"GSM1", "GSM2"}
      [] attr = "srp_id" -> {"SRP1", "SRP2"}
      [] attr = "srr_ids" -> {"SRR1", "SRR2"}
      [] attr = "srs_ids" -> {"SRS1", "SRS2"}
      [] attr = "srx_ids" -> {"SRX1", "SRX2"}

\* nargs="+" gives a non-empty list, no nargs gives the string itself
IdArgs(s) ==
    IF s.nargs = "+" THEN NonEmptySeqsUpTo(Accessions(s.attr), MaxIds)
    ELSE Accessions(s.attr)

\* one value of the positional argument, for a command line that is run twice
OneIdArg(s) == {CHOOSE ids \in IdArgs(s) : TRUE}

\* the values of --saveto and the tables a source returns, for a handler run
SaveTos == {NoneVal, Some(<<"o", ".", "c", "s", "v">>)}

ResultTables ==
    {[columns |-> <<AllColumns[1]>>, rows |-> <<>>],
     [columns |-> <<AllColumns[1]>>, rows |-> << <<<<"a">>>> >>]}

SourceNamespace(s, ids, d, sv, assay, detailed, desc, expand) ==
    LET common == (s.attr :> ids) @@
                  [command |-> s.cmd, func |-> s.func, db |-> d, saveto |-> sv,
                   detailed |-> detailed, desc |-> desc, expand |-> expand]
    IN  IF s.cmd = "metadata" THEN common @@ [assay |-> assay] ELSE common

Event(op) == [op |-> op]

Call(method, pos, kw) == [op |-> "call", method |-> method, pos |-> pos, kw |-> kw]

Calls(tr) == SelectSeq(tr, LAMBDA e : e.op = "call")

(***************************************************************************)
(* The state before parse_args runs: nothing done, some files exist.       *)
(***************************************************************************)
Init ==
    /\ fs \in SUBSET DbFiles
    /\ stdin = <<>>
    /\ command = ""
    /\ args = <<>>
    /\ pc = "start"
    /\ bound = <<>>
    /\ err = NoneVal
    /\ sradb = NoneVal
    /\ trace = <<>>
    /\ df = NoTable
    /\ stdout = <<>>
    /\ saved = <<>>
    /\ todo = <<>>
    /\ instance = NoneVal
    /\ prev = NoneVal
    /\ argv = <<>>

\* parse_args for a metadata or identifier-conversion command: the namespace,
\* then the handler called with its parameters bound
ParseSourceWith(saveTos, once) ==
    /\ pc = "start"
    /\ \E s \in Range(Subparsers), d \in DbArgs, sv \in saveTos,
          assay, detailed, desc, expand \in BOOLEAN :
        \E ids \in (IF once THEN OneIdArg(s) ELSE IdArgs(s)) :
            /\ (s.cmd # "metadata" => ~assay)
            /\ command' = s.cmd
            /\ args' = SourceNamespace(s, ids, d, sv, assay, detailed, desc, expand)
            /\ bound' = Bind(Handler(Dispatch(s.cmd).handler).params,
                             Dispatch(s.cmd).actuals, args')
    /\ pc' = "check_db"
    /\ UNCHANGED <<fs, stdin, err, sradb, trace, df, stdout, saved, todo, instance, prev, argv>>

ParseSource == ParseSourceWith(SaveTos, FALSE)

\* db = _check_sradb_file(db)
CheckSradbFile ==
    /\ pc = "check_db"
    /\ LET r == _check_sradb_file(bound["db"], fs)
       IN  IF r.raised
           THEN /\ err' = Some(r.value)
                /\ pc' = "failed"
                /\ UNCHANGED bound
           ELSE /\ bound' = [bound EXCEPT !["db"] = Some(r.value)]
                /\ pc' = IF command = "download" THEN "dl_get_obj" ELSE "get_obj"
                /\ UNCHANGED err
    /\ UNCHANGED <<command, args, fs, stdin, sradb, trace, df, stdout, saved, todo,
                   instance, prev, argv>>

\* sradb = get_sra_object(db)
GetSraObject ==
    /\ pc = "get_obj"
    /\ sradb' = Some(get_sra_object(Val(bound["db"])))
    /\ trace' = Append(trace, Event("construct"))
    /\ pc' = "query"
    /\ UNCHANGED <<command, args, fs, stdin, bound, err, df, stdout, saved, todo,
                   instance, prev, argv>>

\* detailed=desc: one flag passed in the place of another
QueryCallSwapped(h, b) ==
    Call(h.method, <<b[h.ids]>>,
         [k \in DOMAIN h.kw |-> IF k = "detailed" THEN b["desc"] ELSE b[h.kw[k]]])

\* the web source never asked for detailed rows
QueryCallByClass(h, b) ==
    Call(h.method, <<b[h.ids]>>,
         [k \in DOMAIN h.kw |->
            IF k = "detailed" /\ Val(sradb).cls = "SRAweb" THEN FALSE
            ELSE b[h.kw[k]]])

\* the source method named by args.func, the subparser's set_defaults value
QueryCallOfFunc(h, b) ==
    Call(args["func"], <<b[h.ids]>>, [k \in DOMAIN h.kw |-> b[h.kw[k]]])

\* the call the handler makes on the source: sradb.<method>(ids, **kw)
QueryCall(h, b) ==
    Call(h.method, <<b[h.ids]>>, [k \in DOMAIN h.kw |-> b[h.kw[k]]])

\* df = sradb.<method>(...): the source returns one of the given tables or
\* raises
QueryWith(results) ==
    /\ pc = "query"
    /\ command \in SourceCommands
    /\ trace' = Append(trace, QueryCall(Handler(Dispatch(command).handler), bound))
    /\ \/ /\ df' \in results
          /\ pc' = "print"
          /\ UNCHANGED err
       \/ /\ err' = Some([type |-> "SourceError", msg |-> <<>>])
          /\ pc' = "failed"
          /\ UNCHANGED df
    /\ UNCHANGED <<command, args, fs, stdin, bound, sradb, stdout, saved, todo,
                   instance, prev, argv>>

Query == QueryWith(ResultTables)

\* the source closed in a finally clause when the output step raises
PrintSaveFinally ==
    /\ pc = "print"
    /\ \/ /\ LET r == _print_save_df(df, bound["saveto"], stdout, saved)
             IN  /\ stdout' = r.stdout
                 /\ saved' = r.saved
          /\ trace' = Append(trace, Event("_print_save_df"))
          /\ pc' = "close"
          /\ UNCHANGED err
       \/ /\ err' = Some([type |-> "OSError", msg |-> <<>>])
          /\ trace' = Append(trace, Call("close", <<>>, <<>>))
          /\ pc' = "failed"
          /\ UNCHANGED <<stdout, saved>>
    /\ UNCHANGED <<command, args, fs, stdin, bound, sradb, df, todo, instance, prev, argv>>

\* _print_save_df(df, saveto): writes, or raises before anything is written
PrintSave ==
    /\ pc = "print"
    /\ \/ /\ LET r == _print_save_df(df, bound["saveto"], stdout, saved)
             IN  /\ stdout' = r.stdout
                 /\ saved' = r.saved
          /\ trace' = Append(trace, Event("_print_save_df"))
          /\ pc' = "close"
          /\ UNCHANGED err
       \/ /\ err' = Some([type |-> "OSError", msg |-> <<>>])
          /\ pc' = "failed"
          /\ UNCHANGED <<stdout, saved, trace>>
    /\ UNCHANGED <<command, args, fs, stdin, bound, sradb, df, todo, instance, prev, argv>>

\* the handler returns without sradb.close()
CloseMissing ==
    /\ pc = "close"
    /\ pc' = "done"
    /\ UNCHANGED <<command, args, fs, stdin, bound, err, sradb, trace, df, stdout,
                   saved, todo, instance, prev, argv>>

\* sradb.close()
Close ==
    /\ pc = "close"
    /\ trace' = Append(trace, Call("close", <<>>, <<>>))
    /\ sradb' = Some([Val(sradb) EXCEPT !.closed = TRUE])
    /\ pc' = "done"
    /\ UNCHANGED <<command, args, fs, stdin, bound, err, df, stdout, saved, todo,
                   instance, prev, argv>>

(***************************************************************************)
(* download                                                                *)
(***************************************************************************)
DownloadParams ==
    <<"out_dir", "db", "srx", "srp", "skip_confirmation", "col", "use_wget">>

\* def download(..., col="sra_url", use_wget=True)
DownloadDefaults == [col |-> "sra_url", use_wget |-> TRUE]

\* download(args.out_dir, args.db, args.srx, args.srp, args.skip_confirmation,
\*          args.col)
DownloadActuals == <<"out_dir", "db", "srx", "srp", "skip_confirmation", "col">>

\* a Python call with fewer actuals than parameters: the rest take defaults
BindDefaults(params, actuals, defaults, ns) ==
    [p \in Range(params) |->
        IF Index(params, p) <= Len(actuals)
        THEN ns[actuals[Index(params, p)]]
        ELSE defaults[p]]

\* the values of --col: its default and another column
ColArgs == {"sra_url", "ena_fastq_ftp"}

OutDirArgs == {NoneVal, Some("out")}

SrxArgs == {NoneVal, Some(<<"SRX1">>)}

SrpArgs == {NoneVal} \cup {Some(l) : l \in NonEmptySeqsUpTo(Accessions("srp_id"), MaxIds)}

\* what sys.stdin holds when no --srp is given: nothing, a table as the
\* metadata command prints it, and one with wider column gaps
StdinInputs ==
    { <<>>,
      << <<"r", "u", "n", "\t", "s", "r", "x", "\n">>,
         <<"a", " ", "b", "\n">> >>,
      << <<" ", "r", "u", "n", " ", " ", "s", "r", "x", "\n">>,
         <<"a", " ", " ", " ", " ", "b", "\n">> >> }

\* the loop body of lines 133-149: one line of stdin, cleaned
CleanLine(line, index) ==
    LET l1 == LStripChar(Strip(line), " ")
        l2 == SubWhitespaceN(l1, 3)
        l3 == SubWhitespaceN(l2, 2)
        l4 == SubTabs(l3)
        l5 == SubWhitespaceTab(l4)
        l6 == SubTabWhitespace(l5)
    IN  IF index = 0 THEN SubWhitespaceRun(l6) ELSE l6

\* pd.read_csv(StringIO(text), sep="\t"): the first line names the columns,
\* a short row is padded with empty cells; no line at all, or a row longer
\* than the header, raises
read_csv(lines) ==
    IF lines = <<>> THEN Raise("EmptyDataError", <<>>)
    ELSE LET header == Split(lines[1], "\t")
             fields(i) == Split(lines[i + 1], "\t")
             n == Len(lines) - 1
         IN  IF \E i \in 1..n : Len(fields(i)) > Len(header)
             THEN Raise("ParserError", <<>>)
             ELSE Return([columns |-> header,
                          rows |-> [i \in 1..n |->
                                       [j \in DOMAIN header |->
                                           IF j <= Len(fields(i))
                                           THEN fields(i)[j] ELSE <<>>]]])

DownloadNamespace(out_dir, d, srx, srp, skip, wget, col) ==
    [command |-> "download", func |-> "download", out_dir |-> out_dir, db |-> d,
     srx |-> srx, srp |-> srp, skip_confirmation |-> skip, use_wget |-> wget,
     col |-> col]

\* parse_args for the download command, then download(...) with its
\* parameters bound
ParseDownload ==
    /\ pc = "start"
    /\ \E out_dir \in OutDirArgs, d \in DbArgs, srx \in SrxArgs, srp \in SrpArgs,
          skip, wget \in BOOLEAN, col \in ColArgs :
            /\ command' = "download"
            /\ args' = DownloadNamespace(out_dir, d, srx, srp, skip, wget, col)
            /\ bound' = BindDefaults(DownloadParams, DownloadActuals,
                                     DownloadDefaults, args')
            /\ stdin' \in IF IsNone(srp) THEN StdinInputs ELSE {<<>>}
    /\ pc' = "dl_protocol"
    /\ UNCHANGED <<fs, err, sradb, trace, df, stdout, saved, todo, instance, prev, argv>>

\* lines 123-126: protocol = "ftp" if use_wget else "fasp"
DownloadProtocol ==
    /\ pc = "dl_protocol"
    /\ bound' = ("protocol" :> (IF bound["use_wget"] THEN "ftp" ELSE "fasp"))
                    @@ bound
    /\ pc' = "check_db"
    /\ UNCHANGED <<command, args, fs, stdin, err, sradb, trace, df, stdout, saved,
                   todo, instance, prev, argv>>

\* the studies taken from the end of the list
DownloadGetSraObjectReversed ==
    /\ pc = "dl_get_obj"
    /\ bound' = [bound EXCEPT !["out_dir"] =
                    IF IsNone(@) THEN Some("./pysradb_downloads") ELSE @]
    /\ sradb' = Some(get_sra_object(Val(bound["db"])))
    /\ trace' = Append(trace, Event("construct"))
    /\ IF IsNone(bound["srp"]) \/ bound["srp"] = Some(<<>>)
       THEN pc' = "dl_stdin" /\ UNCHANGED todo
       ELSE /\ pc' = "dl_metadata"
            /\ todo' = [i \in DOMAIN Val(bound["srp"]) |->
                           Val(bound["srp"])[Len(Val(bound["srp"])) + 1 - i]]
    /\ UNCHANGED <<command, args, fs, stdin, err, df, stdout, saved, instance, prev,
                   argv>>

\* lines 128-131: the default out_dir, sradb = get_sra_object(db), and the
\* branch on srp
DownloadGetSraObject ==
    /\ pc = "dl_get_obj"
    /\ bound' = [bound EXCEPT !["out_dir"] =
                    IF IsNone(@) THEN Some("./pysradb_downloads") ELSE @]
    /\ sradb' = Some(get_sra_object(Val(bound["db"])))
    /\ trace' = Append(trace, Event("construct"))
    /\ IF IsNone(bound["srp"]) \/ bound["srp"] = Some(<<>>)
       THEN pc' = "dl_stdin" /\ UNCHANGED todo
       ELSE pc' = "dl_metadata" /\ todo' = Val(bound["srp"])
    /\ UNCHANGED <<command, args, fs, stdin, err, df, stdout, saved, instance, prev, argv>>

\* the download call of the standard-input branch, lines 151-158
StdinDownloadCall(b, table) ==
    Call("download", <<>>,
         [df |-> table, out_dir |-> Val(b["out_dir"]), filter_by_srx |-> b["srx"],
          skip_confirmation |-> TRUE, protocol |-> b["protocol"],
          url_col |-> b["col"]])

\* skip_confirmation=True in the --srp branch too
SrpDownloadCallSkipping(b, table) ==
    Call("download", <<>>,
         [df |-> table, out_dir |-> Val(b["out_dir"]), filter_by_srx |-> b["srx"],
          skip_confirmation |-> TRUE])

\* the download call of the --srp branch, lines 162-167
SrpDownloadCall(b, table) ==
    Call("download", <<>>,
         [df |-> table, out_dir |-> Val(b["out_dir"]), filter_by_srx |-> b["srx"],
          skip_confirmation |-> b["skip_confirmation"]])

\* lines 132-158: stdin is read and parsed into a table, which is downloaded
DownloadStdin ==
    /\ pc = "dl_stdin"
    /\ LET text == [i \in DOMAIN stdin |-> CleanLine(stdin[i], i - 1)]
           r == read_csv(text)
       IN  IF r.raised
           THEN /\ err' = Some(r.value)
                /\ pc' = "failed"
                /\ UNCHANGED <<df, trace>>
           ELSE /\ df' = r.value
                /\ trace' = Append(trace, StdinDownloadCall(bound, r.value))
                /\ \/ pc' = "close" /\ UNCHANGED err
                   \/ /\ err' = Some([type |-> "SourceError", msg |-> <<>>])
                      /\ pc' = "failed"
    /\ UNCHANGED <<command, args, fs, stdin, bound, sradb, stdout, saved, todo,
                   instance, prev, argv>>

\* line 161: metadata = sradb.sra_metadata(srp_x, detailed=True)
DownloadMetadata ==
    /\ pc = "dl_metadata"
    /\ trace' = Append(trace, Call("sra_metadata", <<Head(todo)>>,
                                   [detailed |-> TRUE]))
    /\ \/ /\ df' \in ResultTables
          /\ pc' = "dl_download"
          /\ UNCHANGED err
       \/ /\ err' = Some([type |-> "SourceError", msg |-> <<>>])
          /\ pc' = "failed"
          /\ UNCHANGED df
    /\ UNCHANGED <<command, args, fs, stdin, bound, sradb, stdout, saved, todo,
                   instance, prev, argv>>

\* lines 162-167: sradb.download(df=metadata, ...), then the next srp_x
DownloadStudy ==
    /\ pc = "dl_download"
    /\ trace' = Append(trace, SrpDownloadCall(bound, df))
    /\ \/ /\ todo' = Tail(todo)
          /\ pc' = IF Tail(todo) = <<>> THEN "close" ELSE "dl_metadata"
          /\ UNCHANGED err
       \/ /\ err' = Some([type |-> "SourceError", msg |-> <<>>])
          /\ pc' = "failed"
          /\ UNCHANGED todo
    /\ UNCHANGED <<command, args, fs, stdin, bound, sradb, df, stdout, saved,
                   instance, prev, argv>>

(***************************************************************************)
(* search                                                                  *)
(***************************************************************************)
\* the filters of the search subparser, by their namespace attribute
SearchFilters ==
    <<"query", "accession", "organism", "layout", "mbases", "publication_date",
      "platform", "selection", "source", "strategy", "title", "geo_query",
      "geo_dataset_type", "geo_entry_type">>

\* the positional arguments after verbosity and return_max
UniformFilters ==
    <<"query", "accession", "organism", "layout", "mbases", "publication_date",
      "platform", "selection", "source", "strategy", "title">>

GeoFilters == <<"geo_query", "geo_dataset_type", "geo_entry_type">>

SearchDbs == {"ena", "geo", "sra"}

\* --db as typed: absent, or one of its choices
DbOptions == {NoneVal} \cup {Some(d) : d \in SearchDbs}

\* add_argument("--db", choices=[...], default="sra")
DbOrDefault(typed) == IF IsNone(typed) THEN "sra" ELSE Val(typed)

\* --verbosity and --max, at their defaults
DefaultVerbosity == 2

DefaultMax == 20

\* a filter given on the command line carries a value of its own
FilterValue(f) == Some(<<"value of", f>>)

SearchNamespace(sv, d, given) ==
    [f \in Range(SearchFilters) |-> IF f \in given THEN FilterValue(f) ELSE NoneVal]
    @@ [command |-> "search", func |-> "search", saveto |-> sv, db |-> d,
        verbosity |-> DefaultVerbosity, max |-> DefaultMax]

\* flags = vars(args); search(flags.pop("saveto"), flags.pop("db"),
\*                            flags.pop("verbosity"), flags.pop("max"), flags)
SearchBind(ns) ==
    [saveto |-> ns["saveto"], db |-> ns["db"], verbosity |-> ns["verbosity"],
     return_max |-> ns["max"],
     fields |-> [k \in DOMAIN ns \ {"saveto", "db", "verbosity", "max"} |-> ns[k]]]

\* every backend handed the three GEO filters after the uniform ones
SearchInstanceGeoToAll(b) ==
    LET all == <<b.verbosity, b.return_max>>
               \o [i \in DOMAIN UniformFilters |-> b.fields[UniformFilters[i]]]
               \o [i \in DOMAIN GeoFilters |-> b.fields[GeoFilters[i]]]
    IN  [cls |-> IF b.db = "ena" THEN "EnaSearch"
                 ELSE IF b.db = "geo" THEN "GeoSearch" ELSE "SraSearch",
         ctor |-> all]

\* the backend constructed for db and its positional arguments
SearchInstance(b) ==
    LET uniform == <<b.verbosity, b.return_max>>
                   \o [i \in DOMAIN UniformFilters |-> b.fields[UniformFilters[i]]]
    IN  IF b.db = "ena" THEN [cls |-> "EnaSearch", ctor |-> uniform]
        ELSE IF b.db = "geo"
        THEN [cls |-> "GeoSearch",
              ctor |-> uniform \o [i \in DOMAIN GeoFilters |-> b.fields[GeoFilters[i]]]]
        ELSE [cls |-> "SraSearch", ctor |-> uniform]

\* the backends' contract: a search object given no filter at all raises
\* MissingQuery when it is constructed
NoFilterGiven(ctor) == \A i \in 3..Len(ctor) : IsNone(ctor[i])

SearchErrors == {"MissingQueryException", "IncorrectFieldException"}

\* except MissingQueryException as e
CaughtBySearchMissingOnly(type) == type = "MissingQueryException"

\* except (MissingQueryException, IncorrectFieldException) as e
CaughtBySearch(type) == type \in SearchErrors

\* the message print(e) writes for an exception of this type
Message(type) == <<type>>

\* the except clause without its return: search goes on to print the table
SearchRaiseNoReturn(type, tr) ==
    /\ trace' = Append(tr, [op |-> "raise", type |-> type])
    /\ IF type \in SearchErrors
       THEN /\ stdout' = Append(stdout, Message(type))
            /\ pc' = "search_print"
            /\ UNCHANGED err
       ELSE /\ err' = Some([type |-> type, msg |-> <<>>])
            /\ pc' = "failed"
            /\ UNCHANGED stdout

\* an exception of the given type leaves the try block of search: it is
\* caught, printed and search returns, or it propagates
SearchRaise(type, tr) ==
    /\ trace' = Append(tr, [op |-> "raise", type |-> type])
    /\ IF CaughtBySearch(type)
       THEN /\ stdout' = Append(stdout, Message(type))
            /\ pc' = "done"
            /\ UNCHANGED err
       ELSE /\ err' = Some([type |-> type, msg |-> <<>>])
            /\ pc' = "failed"
            /\ UNCHANGED stdout

ParseSearch ==
    /\ pc = "start"
    /\ \E sv \in SaveTos, typed \in DbOptions, given \in SUBSET Range(SearchFilters) :
            /\ Cardinality(given) <= MaxFilters
            /\ command' = "search"
            /\ argv' = [cmd |-> "search", db |-> typed]
            /\ args' = SearchNamespace(sv, DbOrDefault(typed), given)
            /\ bound' = SearchBind(args')
    /\ pc' = "search_new"
    /\ UNCHANGED <<fs, stdin, err, sradb, trace, df, stdout, saved, todo, instance,
                   prev>>

\* lines 177-229, the constructor call: instance = XxxSearch(...)
SearchConstruct ==
    /\ pc = "search_new"
    /\ LET obj == SearchInstance(bound)
       IN  IF NoFilterGiven(obj.ctor)
           THEN /\ SearchRaise("MissingQueryException", trace)
                /\ UNCHANGED instance
           ELSE \/ /\ instance' = Some(obj)
                   /\ pc' = "search_run"
                   /\ UNCHANGED <<stdout, err, trace>>
                \/ /\ \E type \in SearchErrors \cup {"ConnectionError"} :
                        SearchRaise(type, trace)
                   /\ UNCHANGED instance
    /\ UNCHANGED <<command, args, fs, stdin, bound, sradb, df, saved, todo, prev, argv>>

\* instance.search()
SearchRun ==
    /\ pc = "search_run"
    /\ \/ /\ trace' = Append(trace, Call("search", <<>>, <<>>))
          /\ pc' = "search_print"
          /\ UNCHANGED <<stdout, err>>
       \/ \E type \in SearchErrors \cup {"ConnectionError"} :
            SearchRaise(type, Append(trace, Call("search", <<>>, <<>>)))
    /\ UNCHANGED <<command, args, fs, stdin, bound, sradb, df, saved, todo,
                   instance, prev, argv>>

\* line 235: _print_save_df(instance.get_df(), saveto)
SearchPrint ==
    /\ pc = "search_print"
    /\ \E t \in ResultTables :
        /\ df' = t
        /\ \/ /\ LET r == _print_save_df(t, bound["saveto"], stdout, saved)
                 IN  /\ stdout' = r.stdout
                     /\ saved' = r.saved
              /\ trace' = Append(trace, Call("get_df", <<>>, <<>>))
                              \o <<Event("_print_save_df")>>
              /\ pc' = "done"
              /\ UNCHANGED err
           \/ /\ err' = Some([type |-> "OSError", msg |-> <<>>])
              /\ trace' = Append(trace, Call("get_df", <<>>, <<>>))
              /\ pc' = "failed"
              /\ UNCHANGED <<stdout, saved>>
    /\ UNCHANGED <<command, args, fs, stdin, bound, sradb, todo, instance, prev, argv>>

Next ==
    \/ ParseSource
    \/ ParseDownload
    \/ ParseSearch
    \/ CheckSradbFile
    \/ GetSraObject
    \/ Query
    \/ PrintSave
    \/ Close
    \/ DownloadProtocol
    \/ DownloadGetSraObject
    \/ DownloadStdin
    \/ DownloadMetadata
    \/ DownloadStudy
    \/ SearchConstruct
    \/ SearchRun
    \/ SearchPrint

Spec == Init /\ [][Next]_vars

(***************************************************************************)
(* _print_save_df on its own: a gse_to_gsm handler that holds the table    *)
(* the source returned and is about to print or save it, over every table  *)
(* and destination of the bounds.                                          *)
(***************************************************************************)
PrintSaveTos ==
    {NoneVal, Some(<<>>),
     Some(<<"o", ".", "c", "s", "v">>), Some(<<"O", ".", "C", "S", "V">>),
     Some(<<"o", ".", "C", "s", "v">>), Some(<<"o", ".", "t", "s", "v">>),
     Some(<<"c", "s", "v">>), Some(<<".", "c", "s", "v">>),
     Some(<<"o", ".", "c", "s", "v", ".", "b", "a", "k">>)}

InitPrint ==
    /\ fs = {}
    /\ stdin = <<>>
    /\ command = "gse-to-gsm"
    /\ \E sv \in PrintSaveTos :
        args = SourceNamespace(Subparser("gse-to-gsm"), <<"GSE1">>, NoneVal, sv,
                               FALSE, FALSE, FALSE, FALSE)
    /\ bound = [Bind(Handler("gse_to_gsm").params, Dispatch("gse-to-gsm").actuals,
                     args) EXCEPT !["db"] = Some("web")]
    /\ pc = "print"
    /\ err = NoneVal
    /\ sradb = Some(get_sra_object("web"))
    /\ trace = <<Event("construct"), QueryCall(Handler("gse_to_gsm"), bound)>>
    /\ df \in Tables
    /\ stdout = <<>>
    /\ saved = <<>>
    /\ todo = <<>>
    /\ instance = NoneVal
    /\ prev = NoneVal
    /\ argv = <<>>

NextPrint ==
    \/ PrintSave
    \/ Close

SpecPrint == InitPrint /\ [][NextPrint]_vars

(***************************************************************************)
(* Two runs of the same command: after a metadata or conversion command    *)
(* has finished, the same command line is run again in a new process, with *)
(* another --db and other files present; the first run's source class and  *)
(* calls are kept for comparison.                                          *)
(***************************************************************************)
ParseSourceOnce == ParseSourceWith({NoneVal}, TRUE)

Rerun ==
    /\ pc = "done"
    /\ command \in SourceCommands
    /\ IsNone(prev)
    /\ prev' = Some([cls |-> Val(sradb).cls, calls |-> Calls(trace)])
    /\ \E d \in DbArgs, files \in SUBSET DbFiles :
        /\ fs' = files
        /\ args' = [args EXCEPT !["db"] = d]
        /\ bound' = Bind(Handler(Dispatch(command).handler).params,
                         Dispatch(command).actuals, args')
    /\ pc' = "check_db"
    /\ err' = NoneVal
    /\ sradb' = NoneVal
    /\ trace' = <<>>
    /\ df' = NoTable
    /\ stdout' = <<>>
    /\ saved' = <<>>
    /\ UNCHANGED <<command, stdin, todo, instance, argv>>

NextPair ==
    \/ ParseSourceOnce
    \/ CheckSradbFile
    \/ GetSraObject
    \/ Query
    \/ PrintSave
    \/ Close
    \/ Rerun

SpecPair == Init /\ [][NextPair]_vars

(***************************************************************************)
(* The command line itself: parser.parse_args() on a subcommand and its    *)
(* identifiers, with the errors argparse reports through ArgParser.error,  *)
(* and a metadata source that resolves identifiers from a fixed store.     *)
(***************************************************************************)
\* the six accession kinds
Kinds == <<"gse", "gsm", "srp", "srr", "srs", "srx">>

\* for an ordered pair of kinds, the subcommand a user types to resolve
\* identifiers of the first kind to the second, and the source method of
\* that name
CommandLines == <<
    [src |-> "gse", tgt |-> "gse", cmd |-> "gse-to-gse", method |-> "gse_to_gse"],
    [src |-> "gse", tgt |-> "gsm", cmd |-> "gse-to-gsm", method |-> "gse_to_gsm"],
    [src |-> "gse", tgt |-> "srp", cmd |-> "gse-to-srp", method |-> "gse_to_srp"],
    [src |-> "gse", tgt |-> "srr", cmd |-> "gse-to-srr", method |-> "gse_to_srr"],
    [src |-> "gse", tgt |-> "srs", cmd |-> "gse-to-srs", method |-> "gse_to_srs"],
    [src |-> "gse", tgt |-> "srx", cmd |-> "gse-to-srx", method |-> "gse_to_srx"],
    [src |-> "gsm", tgt |-> "gse", cmd |-> "gsm-to-gse", method |-> "gsm_to_gse"],
    [src |-> "gsm", tgt |-> "gsm", cmd |-> "gsm-to-gsm", method |-> "gsm_to_gsm"],
    [src |-> "gsm", tgt |-> "srp", cmd |-> "gsm-to-srp", method |-> "gsm_to_srp"],
    [src |-> "gsm", tgt |-> "srr", cmd |-> "gsm-to-srr", method |-> "gsm_to_srr"],
    [src |-> "gsm", tgt |-> "srs", cmd |-> "gsm-to-srs", method |-> "gsm_to_srs"],
    [src |-> "gsm", tgt |-> "srx", cmd |-> "gsm-to-srx", method |-> "gsm_to_srx"],
    [src |-> "srp", tgt |-> "gse", cmd |-> "srp-to-gse", method |-> "srp_to_gse"],
    [src |-> "srp", tgt |-> "gsm", cmd |-> "srp-to-gsm", method |-> "srp_to_gsm"],
    [src |-> "srp", tgt |-> "srp", cmd |-> "srp-to-srp", method |-> "srp_to_srp"],
    [src |-> "srp", tgt |-> "srr", cmd |-> "srp-to-srr", method |-> "srp_to_srr"],
    [src |-> "srp", tgt |-> "srs", cmd |-> "srp-to-srs", method |-> "srp_to_srs"],
    [src |-> "srp", tgt |-> "srx", cmd |-> "srp-to-srx", method |-> "srp_to_srx"],
    [src |-> "srr", tgt |-> "gse", cmd |-> "srr-to-gse", method |-> "srr_to_gse"],
    [src |-> "srr", tgt |-> "gsm", cmd |-> "srr-to-gsm", method |-> "srr_to_gsm"],
    [src |-> "srr", tgt |-> "srp", cmd |-> "srr-to-srp", method |-> "srr_to_srp"],
    [src |-> "srr", tgt |-> "srr", cmd |-> "srr-to-srr", method |-> "srr_to_srr"],
    [src |-> "srr", tgt |-> "srs", cmd |-> "srr-to-srs", method |-> "srr_to_srs"],
    [src |-> "srr", tgt |-> "srx", cmd |-> "srr-to-srx", method |-> "srr_to_srx"],
    [src |-> "srs", tgt |-> "gse", cmd |-> "srs-to-gse", method |-> "srs_to_gse"],
    [src |-> "srs", tgt |-> "gsm", cmd |-> "srs-to-gsm", method |-> "srs_to_gsm"],
    [src |-> "srs", tgt |-> "srp", cmd |-> "srs-to-srp", method |-> "srs_to_srp"],
    [src |-> "srs", tgt |-> "srr", cmd |-> "srs-to-srr", method |-> "srs_to_srr"],
    [src |-> "srs", tgt |-> "srs", cmd |-> "srs-to-srs", method |-> "srs_to_srs"],
    [src |-> "srs", tgt |-> "srx", cmd |-> "srs-to-srx", method |-> "srs_to_srx"],
    [src |-> "srx", tgt |-> "gse", cmd |-> "srx-to-gse", method |-> "srx_to_gse"],
    [src |-> "srx", tgt |-> "gsm", cmd |-> "srx-to-gsm", method |-> "srx_to_gsm"],
    [src |-> "srx", tgt |-> "srp", cmd |-> "srx-to-srp", method |-> "srx_to_srp"],
    [src |-> "srx", tgt |-> "srr", cmd |-> "srx-to-srr", method |-> "srx_to_srr"],
    [src |-> "srx", tgt |-> "srs", cmd |-> "srx-to-srs", method |-> "srx_to_srs"],
    [src |-> "srx", tgt |-> "srx", cmd |-> "srx-to-srx", method |-> "srx_to_srx"]
    >>

\* the columns each conversion subparser documents for --detailed
DetailedHelp == <<
    [cmd |-> "gse-to-gsm",
         columns |-> <<"sample_accession (SRS)", "run_accession (SRR)",
                       "sample_alias (GSM)", "run_alias (GSM_r)">>],
    [cmd |-> "gse-to-srp",
         columns |-> <<"experiment_accession (SRX)", "run_accession (SRR)",
                       "sample_accession (SRS)", "experiment_alias (GSM_)",
                       "run_alias (GSM_r)", "sample_alias (GSM)">>],
    [cmd |-> "gsm-to-gse",
         columns |-> <<"sample_accession (SRS)", "run_accession (SRR)",
                       "sample_alias (GSM)", "run_alias (GSM_r)">>],
    [cmd |-> "gsm-to-srp",
         columns |-> <<"experiment_accession (SRX)", "sample_accession (SRS)",
                       "run_accession (SRR)", "experiment_alias (GSM)",
                       "sample_alias (GSM)", "run_alias (GSM_r)",
                       "study_alias (GSE)">>],
    [cmd |-> "gsm-to-srr",
         columns |-> <<"experiment_accession (SRX)", "sample_accession (SRS)",
                       "study_accession (SRS)", "run_alias (GSM_r)",
                       "sample_alias (GSM)", "study_alias (GSE)">>],
    [cmd |-> "gsm-to-srs",
         columns |-> <<"experiment_accession (SRX)", "run_accession (SRR)",
                       "study_accession (SRP)", "run_alias (GSM_r)",
                       "experiment_alias (GSM)", "study_alias (GSE)">>],
    [cmd |-> "gsm-to-srx",
         columns |-> <<"experiment_accession (SRX)", "sample_accession (SRS)",
                       "run_accession (SRR)", "experiment_alias (GSM)",
                       "sample_alias (GSM)", "run_alias (GSM_r)",
                       "study_alias (GSE)">>],
    [cmd |-> "srp-to-gse",
         columns |-> <<"sample_accession", "run_accession">>],
    [cmd |-> "srp-to-srr",
         columns |-> <<"experiment_accession (SRX)", "sample_accession (SRS)",
                       "study_alias (GSE)", "experiment_alias (GSM)",
                       "sample_alias (GSM_)", "run_alias (GSM_r)">>],
    [cmd |-> "srp-to-srs",
         columns |-> <<"run_accession (SRR)", "study_accession (SRP)",
                       "experiment_alias (GSM)", "sample_alias (GSM_)",
                       "run_alias (GSM_r)", "study_alias (GSE)">>],
    [cmd |-> "srp-to-srx",
         columns |-> <<"sample_accession (SRS)", "run_accession (SRR)",
                       "experiment_alias (GSM)", "sample_alias (GSM_)",
                       "run_alias (GSM_r)'", "study_alias (GSE)">>],
    [cmd |-> "srr-to-gsm",
         columns |-> <<"experiment_accession (SRX)", "study_accession (SRP)",
                       "run_alias (GSM_r)", "sample_alias (GSM_)",
                       "experiment_alias (GSM)", "study_alias (GSE)">>],
    [cmd |-> "srr-to-srp",
         columns |-> <<"experiment_accession (SRX)", "sample_accession (SRS)",
                       "run_alias (GSM_r)", "experiment_alias (GSM)",
                       "sample_alias (GSM_)", "study_alias (GSE)">>],
    [cmd |-> "srr-to-srs",
         columns |-> <<"experiment_accession (SRX)", "study_accession (SRP)",
                       "run_alias (GSM_r)", "sample_alias (GSM_)",
                       "experiment_alias (GSM)", "study_alias (GSE)">>],
    [cmd |-> "srr-to-srx",
         columns |-> <<"sample_accession (SRS)", "study_accession (SRP)",
                       "run_alias (GSM_r)", "experiment_alias (GSM)",
                       "sample_alias (GSM_)", "study_alias (GSE)">>],
    [cmd |-> "srs-to-gsm",
         columns |-> <<"run_accession", "study_accession">>],
    [cmd |-> "srs-to-srx",
         columns |-> <<"run_accession", "study_accession">>],
    [cmd |-> "srx-to-srp",
         columns |-> <<"run_accession (SRR)", "sample_accession (SRS)",
                       "experiment_alias (GSM)", "run_alias (GSM_r)",
                       "sample_alias (GSM)", "study_alias (GSE)">>],
    [cmd |-> "srx-to-srr",
         columns |-> <<"sample_accession", "study_accession">>],
    [cmd |-> "srx-to-srs",
         columns |-> <<"run_accession", "study_accession">>]
    >>

\* the metadata command lists the runs of studies
MetadataLine == [src |-> "srp", tgt |-> "srr", cmd |-> "metadata", method |-> "sra_metadata"]

TypedLines == Range(CommandLines) \cup {MetadataLine}

LineOf(cmd) == CHOOSE l \in TypedLines : l.cmd = cmd

\* the command line for the opposite direction
Back(line) == CHOOSE l \in Range(CommandLines) : l.src = line.tgt /\ l.tgt = line.src

\* the choices of the subcommand argument
Subcommands == SourceCommands \cup {"metadb", "download", "search"}

\* the accession prefix of a kind, and an accession of that kind
Prefix(kind) ==
    CASE kind = "gse" -> <<"G", "S", "E">>
      [] kind = "gsm" -> <<"G", "S", "M">>
      [] kind = "srp" -> <<"S", "R", "P">>
      [] kind = "srr" -> <<"S", "R", "R">>
      [] kind = "srs" -> <<"S", "R", "S">>
      [] kind = "srx" -> <<"S", "R", "X">>

Accession(kind, n) == Prefix(kind) \o <<n>>

\* the identifiers typed after a subcommand: two accessions of its source
\* kind and one of another kind
IdTexts(kind) ==
    {Accession(kind, "1"), Accession(kind, "2"),
     Accession(IF kind = "srp" THEN "gsm" ELSE "srp", "1")}

\* the store behind the metadata source: one study (one GEO series) with two
\* experiments, each with its sample, run and GEO sample
Records ==
    << [k \in Range(Kinds) |-> Accession(k, "1")],
       [k \in Range(Kinds) |->
           Accession(k, IF k \in {"gse", "srp"} THEN "1" ELSE "2")] >>

ColumnName(kind) == Prefix(kind)

\* the error result of an identifier that does not match or is not known
NotFound == <<"N", "A">>

\* resolve(source_ids, source_kind, target_kind): the rows of each identifier
\* in the order given; an identifier the store does not know as one of the
\* source kind gets an error row and the rest of the batch is still resolved
RECURSIVE ResolveRows(_, _, _)
ResolveRows(src, ids, tgt) ==
    IF ids = <<>> THEN <<>>
    ELSE LET id == Head(ids)
             found == SelectSeq(Records, LAMBDA r : r[src] = id)
             rows == IF found = <<>>
                     THEN << <<id, NotFound>> >>
                     ELSE [i \in DOMAIN found |-> <<id, found[i][tgt]>>]
         IN  rows \o ResolveRows(src, Tail(ids), tgt)

Resolve(src, ids, tgt) ==
    [columns |-> <<ColumnName(src), ColumnName(tgt)>>,
     rows |-> ResolveRows(src, ids, tgt)]

\* nargs="*": no value at all is accepted too
AcceptsStar(nargs, ids) == IF nargs = "+" THEN TRUE ELSE Len(ids) = 1

\* what argparse accepts for the positional: one or more values with
\* nargs="+", exactly one without nargs
Accepts(nargs, ids) == IF nargs = "+" THEN Len(ids) >= 1 ELSE Len(ids) = 1

\* the value argparse stores: the list with nargs="+", the string without
Positional(nargs, ids) == IF nargs = "+" THEN ids ELSE ids[1]

\* what print_help() writes to standard output
HelpText == <<"u", "s", "a", "g", "e", ":">>

\* ArgParser.error: the message to stderr, the help, sys.exit(2)
ArgParserError(message) ==
    /\ trace' = <<[op |-> "error", message |-> message]>>
    /\ stdout' = <<HelpText>>
    /\ err' = Some([type |-> "SystemExit", msg |-> message, code |-> 2])
    /\ pc' = "exit"
    /\ UNCHANGED <<command, args, bound>>

\* parser.parse_args() in a new process on the subcommand cmd followed by
\* ids, then the dispatch: an unknown subcommand or a positional argparse
\* does not accept ends in ArgParser.error, anything else calls the handler
ParseLine(cmd, ids) ==
    /\ argv' = [cmd |-> cmd, ids |-> ids]
    /\ IF cmd \notin Subcommands
       THEN ArgParserError(<<"invalid choice", cmd>>)
       ELSE LET s == Subparser(cmd)
            IN  IF ~Accepts(s.nargs, ids)
                THEN ArgParserError(IF ids = <<>>
                                    THEN <<"the following arguments are required",
                                           s.attr>>
                                    ELSE <<"unrecognized arguments", Tail(ids)>>)
                ELSE /\ command' = cmd
                     /\ args' = SourceNamespace(s, Positional(s.nargs, ids), NoneVal,
                                                NoneVal, FALSE, FALSE, FALSE, FALSE)
                     /\ bound' = Bind(Handler(Dispatch(cmd).handler).params,
                                      Dispatch(cmd).actuals, args')
                     /\ pc' = "check_db"
                     /\ trace' = <<>>
                     /\ stdout' = <<>>
                     /\ err' = NoneVal

ParseArgv ==
    /\ pc = "start"
    /\ \E line \in TypedLines :
        \E ids \in SeqsUpTo(IdTexts(line.src), MaxIds) : ParseLine(line.cmd, ids)
    /\ UNCHANGED <<fs, stdin, sradb, df, saved, todo, instance, prev>>

\* the identifiers the handler hands the source, as a list
IdsOf(call) ==
    IF Subparser(command).nargs = "+" THEN call.pos[1] ELSE <<call.pos[1]>>

QueriedIds == IdsOf(QueryCall(Handler(Dispatch(command).handler), bound))

\* df = sradb.<method>(...), the source resolving from its store
StoreQuery ==
    /\ argv # <<>>
    /\ QueryWith({Resolve(LineOf(command).src, QueriedIds, LineOf(command).tgt)})

\* the command for the opposite direction is run, in a new process, on the
\* identifier one row of the result holds
ReturnTrip ==
    /\ pc = "done"
    /\ argv # <<>>
    /\ IsNone(prev)
    /\ command # "metadata"
    /\ \E i \in DOMAIN df.rows :
        /\ prev' = Some([argv |-> argv, row |-> df.rows[i]])
        /\ ParseLine(Back(LineOf(command)).cmd, <<df.rows[i][2]>>)
    /\ sradb' = NoneVal
    /\ df' = NoTable
    /\ saved' = <<>>
    /\ UNCHANGED <<fs, stdin, todo, instance>>

NextCmd ==
    \/ ParseArgv
    \/ CheckSradbFile
    \/ GetSraObject
    \/ StoreQuery
    \/ PrintSave
    \/ Close
    \/ ReturnTrip

SpecCmd == Init /\ [][NextCmd]_vars

(***************************************************************************)
(* Properties.                                                             *)
(***************************************************************************)
Tab == <<"\t">>

Comma == <<",">>

\* the path ends in ".csv", whatever the case of its letters
EndsInCsvAnyCase(path) ==
    /\ Len(path) >= 4
    /\ path[Len(path) - 3] = "."
    /\ path[Len(path) - 2] \in {"c", "C"}
    /\ path[Len(path) - 1] \in {"s", "S"}
    /\ path[Len(path)] \in {"v", "V"}

\* _print_save_df has returned
Printed == pc \in {"close", "done"}

PathGiven == ~IsNone(bound["saveto"]) /\ Val(bound["saveto"]) # <<>>

\* C4: when a destination path is given, the table is written to that file,
\* header row first, comma-separated if the path ends in ".csv" in any case and
\* tab-separated otherwise, nothing goes to standard output, and a table with
\* no rows is written too.
C4_SavedToFile ==
    (Printed /\ PathGiven) =>
        /\ stdout = <<>>
        /\ Len(saved) = 1
        /\ saved[1].path = Val(bound["saveto"])
        /\ LET sep == IF EndsInCsvAnyCase(saved[1].path) THEN Comma ELSE Tab
               lines == saved[1].lines
           IN  /\ Len(lines) = 1 + Len(df.rows)
               /\ lines[1] = Join(df.columns, sep)
               /\ \A i \in DOMAIN df.rows : lines[i + 1] = Join(df.rows[i], sep)

\* an upper-case .CSV path and a table without rows: the file is written,
\* comma-separated
C4_Witness ==
    /\ Printed
    /\ bound["saveto"] = Some(<<"O", ".", "C", "S", "V">>)
    /\ df.rows = <<>>
    /\ Len(df.columns) = 2
    /\ Len(saved) = 1
    /\ saved[1].lines = <<AllColumns[1] \o Comma \o AllColumns[2]>>

NoPathGiven == bound["saveto"] \in {NoneVal, Some(<<>>)}

StdoutIsTable ==
    /\ Len(stdout) = 1
    /\ LET lines == Split(stdout[1], "\n")
       IN  /\ lines[1] = Join(df.columns, Tab)
           /\ Len(lines) = 1 + Len(df.rows)

\* a cell that shows something other than white space
Visible(cell) == \E k \in DOMAIN cell : cell[k] \notin Whitespace

\* C5 as stated: with no destination path, every table is written to standard
\* output as a line of column names joined by tabs and one line per row.
C5_EveryTablePrinted == (Printed /\ NoPathGiven) => StdoutIsTable

\* C5 as amended: that holds of a table that has rows and whose first row
\* has a visible cell; for a table without rows nothing is printed.
C5_TableWithRowsPrinted ==
    (Printed /\ NoPathGiven) =>
        /\ (df.rows # <<>> /\ \E j \in DOMAIN df.rows[1] : Visible(df.rows[1][j]))
                => StdoutIsTable
        /\ df.rows = <<>> => stdout = <<>>

\* two rows of two cells, an empty cell among them, printed under the header
C5_Witness ==
    /\ Printed
    /\ IsNone(bound["saveto"])
    /\ Len(df.rows) = 2
    /\ df.rows[1] = << <<>>, <<"a">> >>
    /\ Len(stdout) = 1
    /\ Len(Split(stdout[1], "\n")) = 3

Raised(type) == \E i \in DOMAIN trace : trace[i].op = "raise" /\ trace[i].type = type

\* C1: in search, whichever backend is chosen, a MissingQuery or IncorrectField
\* raised by the constructor or by search() is printed, search returns
\* normally, and no result table is printed or saved.
C1_SearchErrorCaught ==
    \A type \in {"MissingQueryException", "IncorrectFieldException"} :
        (command = "search" /\ Raised(type)) =>
            /\ pc = "done"
            /\ IsNone(err)
            /\ stdout = <<Message(type)>>
            /\ saved = <<>>
            /\ trace[Len(trace)] = [op |-> "raise", type |-> type]
            /\ \A i \in DOMAIN trace : trace[i].op # "_print_save_df"

\* the GEO backend was constructed and its search() raised IncorrectField,
\* with a destination path given
C1_Witness ==
    /\ command = "search"
    /\ args["db"] = "geo"
    /\ ~IsNone(instance)
    /\ Val(instance).cls = "GeoSearch"
    /\ Raised("IncorrectFieldException")
    /\ ~IsNone(args["saveto"])
    /\ pc = "done"

EmptyFilterSet == \A i \in DOMAIN SearchFilters : IsNone(args[SearchFilters[i]])

\* C2: search invoked with no query text and no structured filter ends in the
\* MissingQuery failure: nothing but its message is printed and no file is
\* written.
C2_EmptySearchFails ==
    (command = "search" /\ EmptyFilterSet) =>
        /\ pc \in {"search_new", "done"}
        /\ saved = <<>>
        /\ IsNone(err)
        /\ pc = "search_new" => stdout = <<>>
        /\ pc = "done" =>
            /\ Raised("MissingQueryException")
            /\ stdout = <<Message("MissingQueryException")>>
            /\ \A i \in DOMAIN trace : trace[i].op # "_print_save_df"

\* an empty search against the default backend, with a destination path, has
\* ended
C2_Witness ==
    /\ command = "search"
    /\ EmptyFilterSet
    /\ args["db"] = "sra"
    /\ ~IsNone(args["saveto"])
    /\ pc = "done"

UsesSource == command \in SourceCommands \cup {"download"}

MissingSnapshot == UsesSource /\ ~IsNone(args["db"]) /\ Val(args["db"]) \notin fs

\* C3: a metadata, download or conversion command given --db with a path at
\* which no file exists fails with an error whose message holds the path,
\* before a source object is constructed, a query issued or output written.
C3_MissingSnapshotFatal ==
    MissingSnapshot =>
        /\ pc \in {"dl_protocol", "check_db", "failed"}
        /\ IsNone(sradb)
        /\ trace = <<>>
        /\ stdout = <<>>
        /\ saved = <<>>
        /\ pc = "failed" =>
            /\ ~IsNone(err)
            /\ Val(err).type = "RuntimeError"
            /\ \E k \in DOMAIN Val(err).msg : Val(err).msg[k] = Val(args["db"])

\* download given a snapshot path that does not exist has failed
C3_Witness ==
    /\ command = "download"
    /\ args["db"] = Some(SnapPath)
    /\ SnapPath \notin fs
    /\ pc = "failed"
    /\ Val(err).msg = <<SnapPath, " does not exist">>

\* C6: a metadata or conversion command passes the identifier argument as
\* received and --detailed as detailed, --desc as sample_attribute, --expand
\* as expand_sample_attributes (and --assay as assay for metadata), and no
\* other keyword.
C6_InputsPassedUnchanged ==
    (command \in SourceCommands /\ Calls(trace) # <<>>) =>
        LET c == Calls(trace)[1]
        IN  /\ c.pos = <<args[Subparser(command).attr]>>
            /\ c.kw["detailed"] = args["detailed"]
            /\ c.kw["sample_attribute"] = args["desc"]
            /\ c.kw["expand_sample_attributes"] = args["expand"]
            /\ IF command = "metadata"
               THEN /\ c.kw["assay"] = args["assay"]
                    /\ DOMAIN c.kw = {"assay", "detailed", "sample_attribute",
                                      "expand_sample_attributes"}
               ELSE DOMAIN c.kw = {"detailed", "sample_attribute",
                                   "expand_sample_attributes"}

\* srr-to-srx was given two identifiers in an order, --detailed and --expand
\* but not --desc, and has queried the source
C6_Witness ==
    /\ command = "srr-to-srx"
    /\ args["srr_ids"] = <<"SRR2", "SRR1">>
    /\ args["detailed"] /\ ~args["desc"] /\ args["expand"]
    /\ Len(Calls(trace)) = 1
    /\ Calls(trace)[1].pos = << <<"SRR2", "SRR1">> >>

\* C7: the handlers do not branch on the class of the source: a finished run
\* on one class and a finished run of the same command line on the other
\* made the same calls on their source objects, the query and then close.
C7_SameCallsOnBothSources ==
    (pc = "done" /\ ~IsNone(prev) /\ Val(prev).cls # Val(sradb).cls) =>
        /\ Calls(trace) = Val(prev).calls
        /\ Len(Calls(trace)) = 2
        /\ Calls(trace)[2].method = "close"

\* a --detailed run on the local snapshot, then the same on the web source
C7_Witness ==
    /\ pc = "done"
    /\ ~IsNone(prev)
    /\ Val(prev).cls = "SRAdb"
    /\ Val(sradb).cls = "SRAweb"
    /\ args["detailed"]

IsClose(e) == e.op = "call" /\ e.method = "close"

\* C8: close() is the last thing done: nothing follows a close() in any run,
\* and a metadata, download or conversion run that ends without error has
\* made exactly one close(), after its queries and its output.
C8_CloseOnceAndLast ==
    UsesSource =>
        /\ \A i \in DOMAIN trace : IsClose(trace[i]) => i = Len(trace)
        /\ pc = "done" =>
            /\ trace # <<>>
            /\ IsClose(trace[Len(trace)])
            /\ Val(sradb).closed
            /\ Len(Calls(trace)) >= 2
            /\ command \in SourceCommands =>
                  trace[Len(trace) - 1] = Event("_print_save_df")

\* a download of two studies has ended: two queries, two downloads, a close
C8_Witness ==
    /\ command = "download"
    /\ pc = "done"
    /\ Len(Calls(trace)) = 5
    /\ IsClose(trace[Len(trace)])

DownloadCalls == SelectSeq(trace, LAMBDA e : e.op = "call" /\ e.method = "download")

StdinMode == IsNone(args["srp"])

\* C9 as stated: in both input modes the download operation is told to skip
\* the confirmation only when --skip-confirmation was given.
C9_SkipOnlyWhenAsked ==
    command = "download" =>
        \A i \in DOMAIN DownloadCalls :
            DownloadCalls[i].kw["skip_confirmation"] => args["skip_confirmation"]

\* C9 as amended: with --srp the download operation is told to skip the
\* confirmation exactly when --skip-confirmation was given; with the table on
\* standard input it is always told to skip it.
C9_SkipAsAskedWithSrp ==
    command = "download" =>
        \A i \in DOMAIN DownloadCalls :
            DownloadCalls[i].kw["skip_confirmation"] =
                (StdinMode \/ args["skip_confirmation"])

\* two studies downloaded without --skip-confirmation
C9_Witness ==
    /\ command = "download"
    /\ ~StdinMode
    /\ ~args["skip_confirmation"]
    /\ Len(DownloadCalls) = 2
    /\ ~DownloadCalls[2].kw["skip_confirmation"]

\* C10: the download operation is handed the fasp protocol, or ftp when
\* --use-wget is given, in both input modes.
C10_ProtocolFromUseWget ==
    command = "download" =>
        \A i \in DOMAIN DownloadCalls :
            /\ "protocol" \in DOMAIN DownloadCalls[i].kw
            /\ DownloadCalls[i].kw["protocol"] =
                  (IF args["use_wget"] THEN "ftp" ELSE "fasp")

\* C11: the column named by --col is the URL column handed to the download
\* operation, in both input modes.
C11_ColIsUrlCol ==
    command = "download" =>
        \A i \in DOMAIN DownloadCalls :
            /\ "url_col" \in DOMAIN DownloadCalls[i].kw
            /\ DownloadCalls[i].kw["url_col"] = args["col"]

ConversionLines == {l \in Range(CommandLines) : l.cmd \in SourceCommands}

\* the ordered pairs of kinds the command line resolves: there is a subcommand
\* for the pair and its dispatch branch calls the source method of the pair
ServedPairs ==
    {<<l.src, l.tgt>> :
        l \in {k \in ConversionLines :
                  Handler(Dispatch(k.cmd).handler).method = k.method}}

\* the subcommand documents one non-empty list of --detailed columns
Documented(cmd) ==
    /\ Cardinality({i \in DOMAIN DetailedHelp : DetailedHelp[i].cmd = cmd}) = 1
    /\ \A i \in DOMAIN DetailedHelp :
          DetailedHelp[i].cmd = cmd => DetailedHelp[i].columns # <<>>

AllDocumented == \A l \in ConversionLines : Documented(l.cmd)

ConversionRun == command \in SourceCommands \ {"metadata"}

Ended == pc \in {"done", "exit"}

\* a return trip is under way from a row the first run resolved
ReturnFrom(cmd) ==
    /\ ~IsNone(prev)
    /\ Val(prev).argv.cmd = cmd
    /\ Val(prev).row[2] # NotFound

\* the return trip has come back with the identifier the first run started
\* from
CameBack ==
    /\ pc = "done"
    /\ \E i \in DOMAIN df.rows : df.rows[i][2] = Val(prev).row[1]

\* C13: a GSM identifier known to the source, resolved to SRX with gsm-to-srx,
\* and each SRX returned resolved back to GSM, gives back the GSM identifier.
C13_GsmSrxRoundTrip == (ReturnFrom("gsm-to-srx") /\ Ended) => CameBack

\* the pairs (A, B) with A an ancestor of B: Study over Experiment, Sample
\* and Run, Experiment over Sample and Run
AncestorPairs ==
    {<<"srp", "srx">>, <<"srp", "srs">>, <<"srp", "srr">>,
     <<"srx", "srs">>, <<"srx", "srr">>}

CommandLine(src, tgt) == CHOOSE l \in Range(CommandLines) : l.src = src /\ l.tgt = tgt

\* the command line typed is this one, with one identifier
Typed(line) == argv # <<>> /\ argv.cmd = line.cmd /\ Len(argv.ids) = 1

\* C14: for an ancestor A of B both directions are resolved, and a row that
\* resolving a B identifier to A returns names a B identifier that resolving
\* that A to B returns too.
C14_AncestorRoundTrip ==
    \A p \in AncestorPairs :
        LET down == CommandLine(p[1], p[2])
            up == CommandLine(p[2], p[1])
        IN  /\ (Typed(down) \/ Typed(up)) => pc # "exit"
            /\ (ReturnFrom(up.cmd) /\ Ended) => CameBack

\* the identifier starts with the accession prefix of the kind
HasPrefix(id, kind) == Len(id) > 3 /\ SubSeq(id, 1, 3) = Prefix(kind)

\* the identifiers typed are accessions of the kind that the store knows
ValidIds(kind) ==
    /\ argv.ids # <<>>
    /\ \A i \in DOMAIN argv.ids :
          /\ HasPrefix(argv.ids[i], kind)
          /\ \E j \in DOMAIN Records : Records[j][kind] = argv.ids[i]

\* C15: resolving a non-empty set of valid identifiers of a kind K to the
\* same kind K returns each of them at least once.
C15_SameKindReturnsInput ==
    \A k \in Range(Kinds) :
        (argv # <<>> /\ argv.cmd = CommandLine(k, k).cmd /\ ValidIds(k) /\ Ended) =>
            /\ pc = "done"
            /\ \A i \in DOMAIN argv.ids :
                  \E j \in DOMAIN df.rows : df.rows[j][2] = argv.ids[i]

Known(id, kind) == \E j \in DOMAIN Records : Records[j][kind] = id

\* C16: a conversion command checks every identifier against the accession
\* prefix of its source kind before it is resolved: an identifier that does
\* not match is not handed to the source and gets an error result of its own,
\* and the other identifiers of the batch are still resolved.
C16_PrefixChecked ==
    (argv # <<>> /\ ConversionRun) =>
        LET kind == LineOf(command).src
        IN  /\ \A i \in DOMAIN Calls(trace) :
                  Calls(trace)[i].method # "close" =>
                      \A j \in DOMAIN IdsOf(Calls(trace)[i]) :
                          HasPrefix(IdsOf(Calls(trace)[i])[j], kind)
            /\ pc = "done" =>
                  \A i \in DOMAIN argv.ids :
                      \E j \in DOMAIN df.rows :
                          /\ df.rows[j][1] = argv.ids[i]
                          /\ (df.rows[j][2] = NotFound) =
                                ~(HasPrefix(argv.ids[i], kind) /\ Known(argv.ids[i], kind))

\* C17: a metadata or conversion command given no identifiers ends in the
\* parser's error, an error message and exit status 2, and its handler is
\* never reached: no snapshot check, no source object, no query.
C17_NoIdsFails ==
    (argv # <<>> /\ argv.cmd \in SourceCommands /\ argv.ids = <<>>) =>
        /\ pc = "exit"
        /\ ~IsNone(err)
        /\ Val(err).type = "SystemExit"
        /\ Val(err).code = 2
        /\ Len(trace) = 1
        /\ trace[1].op = "error"
        /\ command = ""
        /\ bound = <<>>
        /\ IsNone(sradb)
        /\ saved = <<>>

\* srx-to-srr typed without identifiers: the parser has reported the missing
\* argument and exited
C17_Witness ==
    /\ argv # <<>>
    /\ argv.cmd = "srx-to-srr"
    /\ argv.ids = <<>>
    /\ pc = "exit"
    /\ trace = <<[op |-> "error",
                  message |-> <<"the following arguments are required", "srx_ids">>]>>

\* C18: a conversion command given one or more accessions is accepted and
\* hands the source the list of them, whatever its source kind.
C18_ListHanded ==
    (argv # <<>> /\ argv.cmd \in SourceCommands \ {"metadata"} /\ argv.ids # <<>>) =>
        /\ pc # "exit"
        /\ \A i \in DOMAIN Calls(trace) :
              Calls(trace)[i].method # "close" =>
                  LET handed == Calls(trace)[i].pos[1]
                  IN  /\ Len(handed) = Len(argv.ids)
                      /\ \A j \in DOMAIN argv.ids : handed[j] = argv.ids[j]

\* C19: a metadata or conversion command writes no file when no --saveto is
\* given and only the file at the --saveto path when one is, and calls
\* nothing on the source but its query method and close().
C19_OnlySavetoWritten ==
    command \in SourceCommands =>
        /\ Len(saved) <= 1
        /\ \A i \in DOMAIN saved :
              /\ ~IsNone(args["saveto"])
              /\ saved[i].path = Val(args["saveto"])
        /\ \A i \in DOMAIN Calls(trace) :
              Calls(trace)[i].method \in
                  {Handler(Dispatch(command).handler).method, "close"}
        /\ Len(Calls(trace)) <= 2

\* a metadata run with --saveto has ended: one file, one query, one close
C19_Witness ==
    /\ command = "metadata"
    /\ pc = "done"
    /\ ~IsNone(args["saveto"])
    /\ Len(saved) = 1
    /\ saved[1].path = Val(args["saveto"])
    /\ stdout = <<>>
    /\ Len(Calls(trace)) = 2

\* the calls made on the source before close()
Work == SelectSeq(trace, LAMBDA e : e.op = "call" /\ e.method # "close")

\* C20: download --srp takes the studies one at a time in the order given:
\* the metadata query of a study, then the download of what it returned, then
\* the next study, and close() after the last.
C20_OneStudyAtATime ==
    (command = "download" /\ ~StdinMode) =>
        LET srp == Val(args["srp"])
        IN  /\ Len(Work) <= 2 * Len(srp)
            /\ \A i \in DOMAIN Work :
                  IF i % 2 = 1
                  THEN /\ Work[i].method = "sra_metadata"
                       /\ Work[i].pos = <<srp[(i + 1) \div 2]>>
                  ELSE Work[i].method = "download"
            /\ (trace # <<>> /\ trace[Len(trace)].op = "call"
                    /\ trace[Len(trace)].method = "download") =>
                  trace[Len(trace)].kw["df"] = df
            /\ pc = "done" => Len(Work) = 2 * Len(srp)

\* SRP2 then SRP1 were asked for: SRP2 was queried and downloaded, then SRP1
C20_Witness ==
    /\ command = "download"
    /\ args["srp"] = Some(<<"SRP2", "SRP1">>)
    /\ pc = "done"
    /\ Len(Work) = 4
    /\ Work[1].pos = <<"SRP2">>
    /\ Work[3].pos = <<"SRP1">>

\* the class each --db choice stands for
BackendOf ==
    [d \in SearchDbs |->
        IF d = "ena" THEN "EnaSearch" ELSE IF d = "geo" THEN "GeoSearch" ELSE "SraSearch"]

\* C21: search constructs one backend, the one --db names (SraSearch when
\* --db is absent); every backend gets verbosity, max and the eleven uniform
\* filters of the command line in the same seats, and the three GEO filters
\* follow them for the GEO backend only.
C21_BackendByDb ==
    (command = "search" /\ ~IsNone(instance)) =>
        LET ctor == Val(instance).ctor
            db == IF IsNone(argv.db) THEN "sra" ELSE Val(argv.db)
        IN  /\ Val(instance).cls = BackendOf[db]
            /\ ctor[1] = args["verbosity"]
            /\ ctor[2] = args["max"]
            /\ \A i \in DOMAIN UniformFilters : ctor[2 + i] = args[UniformFilters[i]]
            /\ IF db = "geo"
               THEN /\ Len(ctor) = 2 + Len(UniformFilters) + Len(GeoFilters)
                    /\ \A i \in DOMAIN GeoFilters :
                          ctor[2 + Len(UniformFilters) + i] = args[GeoFilters[i]]
               ELSE Len(ctor) = 2 + Len(UniformFilters)

\* no --db was typed and a title filter was: the primary archive's backend
\* holds the title in its last seat
C21_Witness ==
    /\ command = "search"
    /\ IsNone(argv.db)
    /\ ~IsNone(instance)
    /\ Val(instance).cls = "SraSearch"
    /\ ~IsNone(args["title"])
    /\ Val(instance).ctor[13] = args["title"]
    /\ Len(Val(instance).ctor) = 13

\* C22: a conversion subcommand X-to-Y runs the handler X_to_Y, and the only
\* conversion method called on the source is X_to_Y, once and before close();
\* the func its subparser registers has no part in it.
C22_HandlerOfCommand ==
    ConversionRun =>
        LET line == LineOf(command)
        IN  /\ Dispatch(command).handler = line.method
            /\ \A i \in DOMAIN Calls(trace) :
                  /\ Calls(trace)[i].method \in {line.method, "close"}
                  /\ Calls(trace)[i].method = line.method <=> i = 1
            /\ pc \in {"print", "close", "done"} =>
                  /\ Calls(trace) # <<>>
                  /\ Calls(trace)[1].method = line.method

\* gse-to-srp, registered with func gse_to_gsm, has ended after one call of
\* gse_to_srp and close()
C22_Witness ==
    /\ command = "gse-to-srp"
    /\ args["func"] = "gse_to_gsm"
    /\ pc = "done"
    /\ Len(Calls(trace)) = 2
    /\ Calls(trace)[1].method = "gse_to_srp"
    /\ Calls(trace)[2].method = "close"

\* _check_sradb_file has returned: its result is bound to db
Checked == UsesSource /\ (pc \in {"get_obj", "dl_get_obj"} \/ ~IsNone(sradb))

\* C23: with no --db the source is the local one exactly when
\* ./SRAmetadb.sqlite exists and the web one otherwise, and nothing is
\* printed or written on the way; what _check_sradb_file returns is "web" or
\* the path of an existing file, the local source is constructed on an
\* existing file only, and a --db value that is not an existing file, the
\* literal "web" included, ends in RuntimeError with no source constructed.
C23_SourceSelection ==
    UsesSource =>
        /\ Checked =>
              LET db == Val(bound["db"])
              IN  /\ db = "web" \/ db \in fs
                  /\ IsNone(args["db"]) => db = (IF CwdDb \in fs THEN CwdDb ELSE "web")
                  /\ ~IsNone(args["db"]) => db = Val(args["db"])
        /\ ~IsNone(sradb) =>
              /\ Val(sradb).cls \in {"SRAdb", "SRAweb"}
              /\ IsNone(args["db"]) => (Val(sradb).cls = "SRAdb" <=> CwdDb \in fs)
              /\ Val(sradb).cls = "SRAdb" =>
                    /\ ~IsNone(Val(sradb).path)
                    /\ Val(Val(sradb).path) \in fs
                    /\ Val(sradb).path = bound["db"]
              /\ Val(sradb).cls = "SRAweb" => bound["db"] = Some("web")
        /\ IsNone(sradb) => stdout = <<>> /\ saved = <<>> /\ trace = <<>>
        /\ MissingSnapshot =>
              /\ ~Checked
              /\ pc \notin {"dl_protocol", "check_db"} =>
                    /\ pc = "failed"
                    /\ Val(err).type = "RuntimeError"

\* no --db was given and ./SRAmetadb.sqlite exists: the local source was
\* constructed on it
C23_Witness ==
    /\ UsesSource
    /\ IsNone(args["db"])
    /\ CwdDb \in fs
    /\ ~IsNone(sradb)
    /\ Val(sradb).cls = "SRAdb"
    /\ Val(sradb).path = Some(CwdDb)

\* C24: in a metadata, download or conversion command an error raised once
\* the source is constructed, by a query or by the output step, is not
\* caught: the run ends with that error, and close() was not and is not
\* called on the source.
C24_ErrorLeavesSourceOpen ==
    UsesSource =>
        /\ ~IsNone(err) <=> pc = "failed"
        /\ (pc = "failed" /\ ~IsNone(sradb)) =>
              /\ Val(err).type \in {"SourceError", "OSError", "EmptyDataError", "ParserError"}
              /\ ~Val(sradb).closed
              /\ \A i \in DOMAIN trace : ~IsClose(trace[i])
        /\ (\E i \in DOMAIN trace : IsClose(trace[i])) => IsNone(err)

\* a conversion command queried the source, writing the table raised, and
\* the run ended with the source still open
C24_Witness ==
    /\ ConversionRun
    /\ pc = "failed"
    /\ Val(err).type = "OSError"
    /\ ~IsNone(sradb)
    /\ ~Val(sradb).closed
    /\ Len(Calls(trace)) = 1
    /\ Calls(trace)[1].method = Dispatch(command).handler

====
